---------------------------- MODULE Spec2Model ----------------------------
(***************************************************************************)
(* File integrity monitor (fim): the File Record mappings, the diff        *)
(* engine (compare_baseline), the snapshot builder, the incremental event  *)
(* classifier (build_event_change), the baseline store (save/load) and the *)
(* watch supervisor (run_watch: polling worker, observer callbacks).       *)
(*                                                                         *)
(* Conventions.  A path (str) is a sequence of character codes, compared   *)
(* as Python compares str (lexicographically by code point).  A digest is  *)
(* a number of 1..NumHashes.  A float (mtime) is a number of tenths        *)
(* (15 stands for 1.5).  A dict is the sequence of its items [k, v] in     *)
(* insertion order.                                                        *)
(***************************************************************************)
EXTENDS Integers, Sequences, FiniteSets, TLC

VARIABLES
    baseline,   \* dict path -> BaselineRecord: the trusted state
    current,    \* dict path -> BaselineRecord: the last snapshot / second argument
    changes,    \* list of Change: the value last returned by the diff / classifier
    fs,         \* the filesystem: path -> entry
    config,     \* the Config in use
    log,        \* the logger's output: how many times each line was logged
    phase,      \* position of the sequential commands (baseline, scan, pure calls)
    arg,        \* the argument of the last call: a path, or the data of config.json
    disk,       \* the baseline file: text written by save_baseline
    raised,     \* the exception the last call let propagate, or "none"
    \* run_watch
    mode,       \* polling, realtime or both ("off": no watch session)
    watchdog,   \* whether the watchdog package can be imported
    stop_event, \* threading.Event: set or not
    main_pc,    \* position of the main thread in run_watch
    exit_code,  \* the value run_watch returned, -1 before
    worker_pc,  \* position of the polling worker thread
    observer,   \* the observer thread: none, running, stopping, joined, crashed
    queue,      \* events the observer has still to dispatch
    h_pc,       \* position of the event callback
    h_ev,       \* the event being dispatched
    last_event, \* Handler._last_event: dict path -> time
    clock,      \* time.monotonic(), in milliseconds
    hist,       \* history: one entry per file-level event on_any_event handled
    cycles,     \* history: polling cycles completed
    budget,     \* filesystem operations still to come
    late,       \* history: a Change was reported after run_watch returned
    ctx         \* callback contexts running _debounced side by side

pureVars == <<baseline, current, changes, fs, config, log, phase, arg, disk, raised>>

mainVars == <<mode, watchdog, stop_event, main_pc, exit_code>>

workerVars == <<worker_pc, cycles>>

handlerVars == <<observer, queue, h_pc, h_ev, last_event, clock, hist>>

watchVars == <<mainVars, workerVars, handlerVars, budget, late, ctx>>

vars == <<pureVars, watchVars>>

-----------------------------------------------------------------------------
(* Bounds *)

NumHashes == 2

-----------------------------------------------------------------------------
(* Generic helpers *)

Range(s) == {s[i] : i \in 1..Len(s)}

Min(a, b) == IF a < b THEN a ELSE b

IsInjective(s) == \A i, j \in 1..Len(s) : s[i] = s[j] => i = j

\* Python's str comparison a < b
LexLess(a, b) ==
    \/ \E i \in 1..Min(Len(a), Len(b)) :
          /\ a[i] < b[i]
          /\ \A j \in 1..(i - 1) : a[j] = b[j]
    \/ /\ Len(a) < Len(b)
       /\ \A j \in 1..Len(a) : a[j] = b[j]

\* a wrong order: by length first, then by code point
ShortLexLess(a, b) ==
    \/ Len(a) < Len(b)
    \/ Len(a) = Len(b) /\ LexLess(a, b)

RECURSIVE sortedShortLex(_)
sortedShortLex(S) ==
    IF S = {} THEN <<>>
    ELSE LET m == CHOOSE x \in S : \A y \in S \ {x} : ShortLexLess(x, y)
         IN  <<m>> \o sortedShortLex(S \ {m})

\* sorted(S) for a set S of str
RECURSIVE sorted(_)
sorted(S) ==
    IF S = {} THEN <<>>
    ELSE LET m == CHOOSE x \in S : \A y \in S \ {x} : LexLess(x, y)
         IN  <<m>> \o sorted(S \ {m})

-----------------------------------------------------------------------------
(* dict *)

Keys(d) == {d[i].k : i \in 1..Len(d)}

Has(d, key) == key \in Keys(d)

Get(d, key) == d[CHOOSE i \in 1..Len(d) : d[i].k = key].v

\* d[key] = val: a new key goes last, an old key keeps its place
Put(d, key, val) ==
    IF Has(d, key)
    THEN [i \in 1..Len(d) |-> IF d[i].k = key THEN [k |-> key, v |-> val] ELSE d[i]]
    ELSE Append(d, [k |-> key, v |-> val])

\* dict equality: same keys, same values, whatever the insertion order
DictEq(d, e) ==
    /\ Keys(d) = Keys(e)
    /\ \A key \in Keys(d) : Get(d, key) = Get(e, key)

-----------------------------------------------------------------------------
(* Data model *)

BaselineRecord(p, h, s, m) == [path |-> p, hash |-> h, size |-> s, mtime |-> m]

Change(t, p, d) == [change_type |-> t, path |-> p, details |-> d]

Hashes == 1..NumHashes

-----------------------------------------------------------------------------
(* Diff engine *)

\* a diff that compares whole records instead of their hashes
compare_baseline_by_record(base, cur) ==
    LET baseline_paths == Keys(base)
        current_paths == Keys(cur)
        cr == sorted(current_paths \ baseline_paths)
        de == sorted(baseline_paths \ current_paths)
        co == SelectSeq(sorted(baseline_paths \cap current_paths),
                        LAMBDA p : Get(base, p) # Get(cur, p))
    IN  [i \in 1..Len(cr) |->
            Change("created", cr[i], [hash |-> Get(cur, cr[i]).hash])]
        \o [i \in 1..Len(de) |->
            Change("deleted", de[i], [hash |-> Get(base, de[i]).hash])]
        \o [i \in 1..Len(co) |->
            Change("modified", co[i],
                   [before |-> Get(base, co[i]).hash, after |-> Get(cur, co[i]).hash])]

\* a diff that lists every current path as created
compare_baseline_created_all(base, cur) ==
    LET baseline_paths == Keys(base)
        current_paths == Keys(cur)
        cr == sorted(current_paths)
        de == sorted(baseline_paths \ current_paths)
        co == SelectSeq(sorted(baseline_paths \cap current_paths),
                        LAMBDA p : Get(base, p).hash # Get(cur, p).hash)
    IN  [i \in 1..Len(cr) |->
            Change("created", cr[i], [hash |-> Get(cur, cr[i]).hash])]
        \o [i \in 1..Len(de) |->
            Change("deleted", de[i], [hash |-> Get(base, de[i]).hash])]
        \o [i \in 1..Len(co) |->
            Change("modified", co[i],
                   [before |-> Get(base, co[i]).hash, after |-> Get(cur, co[i]).hash])]

compare_baseline(base, cur) ==
    LET baseline_paths == Keys(base)
        current_paths == Keys(cur)
        cr == sorted(current_paths \ baseline_paths)
        de == sorted(baseline_paths \ current_paths)
        co == SelectSeq(sorted(baseline_paths \cap current_paths),
                        LAMBDA p : Get(base, p).hash # Get(cur, p).hash)
    IN  [i \in 1..Len(cr) |->
            Change("created", cr[i], [hash |-> Get(cur, cr[i]).hash])]
        \o [i \in 1..Len(de) |->
            Change("deleted", de[i], [hash |-> Get(base, de[i]).hash])]
        \o [i \in 1..Len(co) |->
            Change("modified", co[i],
                   [before |-> Get(base, co[i]).hash, after |-> Get(cur, co[i]).hash])]

-----------------------------------------------------------------------------
(* Filesystem and configuration *)

\* configured roots: RootDir is a directory, RootFile a single file
RootDir == <<1>>
RootFile == <<2>>

\* the files that can exist: one under RootDir, and RootFile itself
FsPaths == {<<1, 1>>, RootFile}

Absent == [kind |-> "absent", hash |-> 0, size |-> 0, mtime |-> 0, io |-> "ok"]

\* kind: a regular file or a symbolic link to one; io: whether reading the
\* content (hash_fail) or stat (stat_fail) raises OSError
FsEntries(sizes, mtimes) ==
    {Absent} \cup
    [kind : {"file", "symlink"}, hash : Hashes, size : sizes, mtime : mtimes,
     io : {"ok", "hash_fail", "stat_fail"}]

exists(f, path) == path \in DOMAIN f /\ f[path].kind # "absent"

is_file(f, path) == path \in DOMAIN f /\ f[path].kind \in {"file", "symlink"}

is_symlink(f, path) == path \in DOMAIN f /\ f[path].kind = "symlink"

IsPrefix(r, p) == Len(r) < Len(p) /\ \A i \in 1..Len(r) : p[i] = r[i]

\* root.rglob("*"): the entries below a directory root
rglob(f, root) == sorted({p \in DOMAIN f : IsPrefix(root, p) /\ exists(f, p)})

iter_files(f, root, follow_symlinks) ==
    IF is_file(f, root) THEN <<root>>
    ELSE SelectSeq(rglob(f, root),
                   LAMBDA p : is_file(f, p) /\ (follow_symlinks \/ ~is_symlink(f, p)))

\* a glob is modelled by the last character it asks for ("*c")
match(path, pattern) == Len(path) > 0 /\ path[Len(path)] = pattern

should_exclude(path, root, exclude_globs) ==
    LET relative == SubSeq(path, Len(root) + 1, Len(path))
    IN  \E i \in 1..Len(exclude_globs) :
            match(path, exclude_globs[i]) \/ match(relative, exclude_globs[i])

\* compute_file_hash: the digest, or the exception raised
compute_file_hash(f, path, algorithm) ==
    IF algorithm # "sha256" THEN [raised |-> "ValueError", value |-> 0]
    ELSE IF ~exists(f, path) \/ f[path].io = "hash_fail"
        THEN [raised |-> "OSError", value |-> 0]
    ELSE [raised |-> "none", value |-> f[path].hash]

\* path.stat()
stat(f, path) ==
    IF ~exists(f, path) \/ f[path].io = "stat_fail"
        THEN [raised |-> "OSError", st_size |-> 0, st_mtime |-> 0]
    ELSE [raised |-> "none", st_size |-> f[path].size, st_mtime |-> f[path].mtime]

\* re-hashing path raises OSError: it exists and its content cannot be read
HashFails(f, path) == exists(f, path) /\ f[path].io = "hash_fail"

Warning(path) == [level |-> "WARNING", msg |-> "Skipping", path |-> path]

\* the logger: a line is logged once more
LogLine(lg, line) ==
    [l \in DOMAIN lg \cup {line} |->
        IF l \in DOMAIN lg
        THEN (IF l = line THEN lg[l] + 1 ELSE lg[l])
        ELSE 1]

RECURSIVE LogAll(_, _)
LogAll(lg, lines) ==
    IF lines = <<>> THEN lg ELSE LogAll(LogLine(lg, Head(lines)), Tail(lines))

\* how many times line was logged
LogCount(lg, line) == IF line \in DOMAIN lg THEN lg[line] ELSE 0

-----------------------------------------------------------------------------
(* Snapshot builder and baseline builder *)

\* the body of the per-file try block: acc is [data, warnings, raised]
try_record_abort(f, cfg, path, acc) ==
    LET h == compute_file_hash(f, path, cfg.hash_algorithm)
        st == stat(f, path)
    IN  IF h.raised # "none"
            THEN [acc EXCEPT !.raised = h.raised]
        ELSE IF st.raised = "OSError"
            THEN [acc EXCEPT !.raised = "OSError"]
        ELSE [acc EXCEPT !.data =
                Put(acc.data, path, BaselineRecord(path, h.value, st.st_size, st.st_mtime))]

try_record(f, cfg, path, acc) ==
    LET h == compute_file_hash(f, path, cfg.hash_algorithm)
        st == stat(f, path)
    IN  IF h.raised = "OSError"
            THEN [acc EXCEPT !.warnings = Append(acc.warnings, Warning(path))]
        ELSE IF h.raised # "none"
            THEN [acc EXCEPT !.raised = h.raised]
        ELSE IF st.raised = "OSError"
            THEN [acc EXCEPT !.warnings = Append(acc.warnings, Warning(path))]
        ELSE [acc EXCEPT !.data =
                Put(acc.data, path, BaselineRecord(path, h.value, st.st_size, st.st_mtime))]

RECURSIVE walk_files(_, _, _, _, _)
walk_files(f, cfg, root, files, acc) ==
    IF files = <<>> \/ acc.raised # "none" THEN acc
    ELSE walk_files(f, cfg, root, Tail(files),
            IF should_exclude(Head(files), root, cfg.exclude_globs)
            THEN acc
            ELSE try_record(f, cfg, Head(files), acc))

RECURSIVE walk_roots(_, _, _, _)
walk_roots(f, cfg, roots, acc) ==
    IF roots = <<>> \/ acc.raised # "none" THEN acc
    ELSE walk_roots(f, cfg, Tail(roots),
            walk_files(f, cfg, Head(roots),
                       iter_files(f, Head(roots), cfg.follow_symlinks), acc))

EmptyWalk == [data |-> <<>>, warnings |-> <<>>, raised |-> "none"]

snapshot(cfg, f) == walk_roots(f, cfg, cfg.paths, EmptyWalk)

build_baseline(cfg, f) == walk_roots(f, cfg, cfg.paths, EmptyWalk)

-----------------------------------------------------------------------------
(* Incremental event classifier *)

\* a classifier without the except clause
build_event_change_raising(base, path, cfg, f) ==
    IF ~exists(f, path)
    THEN [changes |-> IF Has(base, path)
                      THEN <<Change("deleted", path, [hash |-> Get(base, path).hash])>>
                      ELSE <<>>,
          warnings |-> <<>>, raised |-> "none"]
    ELSE LET h == compute_file_hash(f, path, cfg.hash_algorithm)
         IN  IF h.raised # "none"
                 THEN [changes |-> <<>>, warnings |-> <<>>, raised |-> h.raised]
             ELSE IF ~Has(base, path)
                 THEN [changes |-> <<Change("created", path, [hash |-> h.value])>>,
                       warnings |-> <<>>, raised |-> "none"]
             ELSE IF Get(base, path).hash # h.value
                 THEN [changes |-> <<Change("modified", path,
                                 [before |-> Get(base, path).hash, after |-> h.value])>>,
                       warnings |-> <<>>, raised |-> "none"]
             ELSE [changes |-> <<>>, warnings |-> <<>>, raised |-> "none"]

\* a classifier that stays silent on a path the baseline does not hold
build_event_change_tracked_only(base, path, cfg, f) ==
    IF ~Has(base, path)
    THEN [changes |-> <<>>, warnings |-> <<>>, raised |-> "none"]
    ELSE build_event_change_raising(base, path, cfg, f)

build_event_change(base, path, cfg, f) ==
    IF ~exists(f, path)
    THEN [changes |-> IF Has(base, path)
                      THEN <<Change("deleted", path, [hash |-> Get(base, path).hash])>>
                      ELSE <<>>,
          warnings |-> <<>>, raised |-> "none"]
    ELSE LET h == compute_file_hash(f, path, cfg.hash_algorithm)
         IN  IF h.raised = "OSError"
                 THEN [changes |-> <<>>, warnings |-> <<Warning(path)>>, raised |-> "none"]
             ELSE IF h.raised # "none"
                 THEN [changes |-> <<>>, warnings |-> <<>>, raised |-> h.raised]
             ELSE IF ~Has(base, path)
                 THEN [changes |-> <<Change("created", path, [hash |-> h.value])>>,
                       warnings |-> <<>>, raised |-> "none"]
             ELSE IF Get(base, path).hash # h.value
                 THEN [changes |-> <<Change("modified", path,
                                 [before |-> Get(base, path).hash, after |-> h.value])>>,
                       warnings |-> <<>>, raised |-> "none"]
             ELSE [changes |-> <<>>, warnings |-> <<>>, raised |-> "none"]

-----------------------------------------------------------------------------
(* No watch session: the state of the run_watch variables in the            *)
(* specifications of the sequential calls                                  *)

NoEvent == [event_type |-> "none", src_path |-> <<>>, dest_path |-> <<>>,
            is_directory |-> FALSE]

WatchOff ==
    /\ mode = "off"
    /\ watchdog = FALSE
    /\ stop_event = FALSE
    /\ main_pc = "off"
    /\ exit_code = -1
    /\ worker_pc = "none"
    /\ observer = "none"
    /\ queue = <<>>
    /\ h_pc = "idle"
    /\ h_ev = NoEvent
    /\ last_event = <<>>
    /\ clock = 0
    /\ hist = <<>>
    /\ cycles = 0
    /\ budget = 0
    /\ late = FALSE
    /\ ctx = <<>>

-----------------------------------------------------------------------------
(* SpecDiff: compare_baseline applied to every pair of bounded mappings *)

DiffPaths == {<<1>>, <<1, 2>>, <<2>>}

\* the (size, mtime) pairs of the records compared
BaselineMetas == {<<1, 10>>}
CurrentMetas == {<<1, 10>>, <<2, 10>>, <<1, 15>>}

Reverse(s) == [i \in 1..Len(s) |-> s[Len(s) + 1 - i]]

\* every dict over a subset of paths, each record carrying its key as its
\* path, inserted in descending key order
Mappings(paths, metas) ==
    UNION {
        {LET ks == Reverse(sorted(S))
         IN  [i \in 1..Len(ks) |->
                [k |-> ks[i],
                 v |-> BaselineRecord(ks[i], r[ks[i]][1], r[ks[i]][2][1], r[ks[i]][2][2])]]
         : r \in [S -> Hashes \X metas]}
        : S \in SUBSET paths}

InitDiff ==
    /\ baseline \in Mappings(DiffPaths, BaselineMetas)
    /\ current \in Mappings(DiffPaths, CurrentMetas)
    /\ changes = <<>>
    /\ fs = <<>>
    /\ config = <<>>
    /\ log = <<>>
    /\ phase = "input"
    /\ arg = <<>>
    /\ disk = <<>>
    /\ raised = "none"
    /\ WatchOff

Compare ==
    /\ phase = "input"
    /\ changes' = compare_baseline(baseline, current)
    /\ phase' = "compared"
    /\ UNCHANGED <<baseline, current, fs, config, log, arg, disk, raised>>
    /\ UNCHANGED watchVars

NextDiff == Compare

SpecDiff == InitDiff /\ [][NextDiff]_vars

-----------------------------------------------------------------------------
(* SpecFs: snapshot, build_baseline and build_event_change applied to every *)
(* bounded baseline, configuration and filesystem                          *)

Configs ==
    [paths : {<<RootDir>>, <<RootFile>>, <<RootDir, RootFile>>},
     exclude_globs : {<<>>, <<1>>, <<2>>},
     follow_symlinks : BOOLEAN,
     hash_algorithm : {"sha256"}]

FsBaselines == Mappings(FsPaths, BaselineMetas)

InitFs ==
    /\ baseline \in FsBaselines
    /\ current = <<>>
    /\ changes = <<>>
    /\ fs \in [FsPaths -> FsEntries({1}, {10})]
    /\ config \in Configs
    /\ log = <<>>
    /\ phase = "input"
    /\ arg = <<>>
    /\ disk = <<>>
    /\ raised = "none"
    /\ WatchOff

CallSnapshot ==
    /\ phase = "input"
    /\ LET r == snapshot(config, fs)
       IN  /\ current' = r.data
           /\ log' = LogAll(log, r.warnings)
           /\ raised' = r.raised
    /\ phase' = "snapshot"
    /\ UNCHANGED <<baseline, changes, fs, config, arg, disk>>
    /\ UNCHANGED watchVars

CallBuildBaseline ==
    /\ phase = "input"
    /\ LET r == build_baseline(config, fs)
       IN  /\ baseline' = r.data
           /\ log' = LogAll(log, r.warnings)
           /\ raised' = r.raised
    /\ phase' = "built"
    /\ UNCHANGED <<current, changes, fs, config, arg, disk>>
    /\ UNCHANGED watchVars

CallBuildEventChange(path) ==
    /\ phase = "input"
    /\ LET r == build_event_change(baseline, path, config, fs)
       IN  /\ changes' = r.changes
           /\ log' = LogAll(log, r.warnings)
           /\ raised' = r.raised
    /\ arg' = path
    /\ phase' = "event"
    /\ UNCHANGED <<baseline, current, fs, config, disk>>
    /\ UNCHANGED watchVars

NextFs ==
    \/ CallSnapshot
    \/ CallBuildBaseline
    \/ \E path \in FsPaths : CallBuildEventChange(path)

SpecFs == InitFs /\ [][NextFs]_vars

-----------------------------------------------------------------------------
(* Baseline store: JSON text of the scalars, one member per path *)

Quote == 34
Backslash == 92
Dot == 46
Zero == 48

\* the hex digest str of digest h, and back
hexdigest(h) == <<96 + h>>
digest_of(t) == t[1] - 96

RECURSIVE escape(_)
escape(str) ==
    IF str = <<>> THEN <<>>
    ELSE (IF Head(str) \in {Quote, Backslash} THEN <<Backslash, Head(str)>>
          ELSE <<Head(str)>>) \o escape(Tail(str))

RECURSIVE unescape(_)
unescape(t) ==
    IF t = <<>> THEN <<>>
    ELSE IF Head(t) = Backslash /\ Len(t) >= 2
        THEN <<t[2]>> \o unescape(Tail(Tail(t)))
    ELSE <<Head(t)>> \o unescape(Tail(t))

json_dumps_str(str) == <<Quote>> \o escape(str) \o <<Quote>>

json_loads_str(t) == unescape(SubSeq(t, 2, Len(t) - 1))

RECURSIVE json_dumps_int(_)
json_dumps_int(n) ==
    IF n < 10 THEN <<Zero + n>>
    ELSE json_dumps_int(n \div 10) \o <<Zero + (n % 10)>>

RECURSIVE json_loads_int(_)
json_loads_int(t) ==
    IF t = <<>> THEN 0
    ELSE 10 * json_loads_int(SubSeq(t, 1, Len(t) - 1)) + (t[Len(t)] - Zero)

\* a float written without its fraction
json_dumps_float_truncated(x) == json_dumps_int(x \div 10)

\* float.__repr__ of x tenths
json_dumps_float(x) == json_dumps_int(x \div 10) \o <<Dot>> \o <<Zero + (x % 10)>>

\* a JSON number: text with a fraction is a float (in tenths), text without
\* is an int, the float equal to it being 10 times as many tenths
json_loads_number(t, as_tenths) ==
    IF \E i \in 1..Len(t) : t[i] = Dot
    THEN LET d == CHOOSE i \in 1..Len(t) : t[i] = Dot
         IN  10 * json_loads_int(SubSeq(t, 1, d - 1))
                + json_loads_int(SubSeq(t, d + 1, Len(t)))
    ELSE IF as_tenths THEN 10 * json_loads_int(t) ELSE json_loads_int(t)

\* asdict(record), dumped
dumps_record(record) ==
    [hash |-> json_dumps_str(hexdigest(record.hash)),
     mtime |-> json_dumps_float(record.mtime),
     path |-> json_dumps_str(record.path),
     size |-> json_dumps_int(record.size)]

save_baseline(records) ==
    LET ks == sorted(Keys(records))
    IN  [i \in 1..Len(ks) |->
            [key |-> json_dumps_str(ks[i]), value |-> dumps_record(Get(records, ks[i]))]]

RECURSIVE load_members(_, _)
load_members(members, acc) ==
    IF members = <<>> THEN acc
    ELSE LET m == Head(members)
         IN  load_members(Tail(members),
                Put(acc, json_loads_str(m.key),
                    BaselineRecord(json_loads_str(m.value.path),
                                   digest_of(json_loads_str(m.value.hash)),
                                   json_loads_number(m.value.size, FALSE),
                                   json_loads_number(m.value.mtime, TRUE))))

load_baseline(text) == load_members(text, <<>>)

-----------------------------------------------------------------------------
(* SpecStore: save_baseline then load_baseline, on every bounded mapping *)

StorePaths == {<<1>>, <<1, Quote>>, <<Backslash, 2>>}

StoreMetas == {<<7, 15>>, <<12, 120>>, <<0, 1234>>, <<305, 9>>}

InitStore ==
    /\ baseline \in Mappings(StorePaths, StoreMetas)
    /\ current = <<>>
    /\ changes = <<>>
    /\ fs = <<>>
    /\ config = <<>>
    /\ log = <<>>
    /\ phase = "input"
    /\ arg = <<>>
    /\ disk = <<>>
    /\ raised = "none"
    /\ WatchOff

Save ==
    /\ phase = "input"
    /\ disk' = save_baseline(baseline)
    /\ phase' = "saved"
    /\ UNCHANGED <<baseline, current, changes, fs, config, log, arg, raised>>
    /\ UNCHANGED watchVars

Load ==
    /\ phase = "saved"
    /\ current' = load_baseline(disk)
    /\ phase' = "loaded"
    /\ UNCHANGED <<baseline, changes, fs, config, log, arg, disk, raised>>
    /\ UNCHANGED watchVars

NextStore == Save \/ Load

SpecStore == InitStore /\ [][NextStore]_vars

\* C8: for a non-empty mapping B keyed by each record's path,
\* load_baseline of what save_baseline(B) wrote equals B: the same keys and,
\* per key, the same path, hash, size and mtime.
C8_StoreRoundTrip ==
    (phase = "loaded" /\ baseline # <<>>) =>
        /\ Keys(current) = Keys(baseline)
        /\ \A p \in Keys(baseline) :
              /\ Get(current, p).path = Get(baseline, p).path
              /\ Get(current, p).hash = Get(baseline, p).hash
              /\ Get(current, p).size = Get(baseline, p).size
              /\ Get(current, p).mtime = Get(baseline, p).mtime
        /\ DictEq(current, baseline)

\* three records loaded back, one path holding a quote, one mtime with a
\* fraction, one size of several digits
C8_Witness ==
    /\ phase = "loaded"
    /\ Len(baseline) = 3
    /\ Len(current) = 3
    /\ \E p \in Keys(current) : Get(current, p).mtime = 15
    /\ \E p \in Keys(current) : Get(current, p).size = 305
    /\ <<1, Quote>> \in Keys(current)

-----------------------------------------------------------------------------
(* Claims on the diff engine *)

Occurrences(cs, p) == {i \in 1..Len(cs) : cs[i].path = p}

\* what the diff of base and cur must hold for path p: a set of 0 or 1 Change
ExpectedFor(base, cur, p) ==
    IF Has(cur, p) /\ ~Has(base, p)
        THEN {Change("created", p, [hash |-> Get(cur, p).hash])}
    ELSE IF Has(base, p) /\ ~Has(cur, p)
        THEN {Change("deleted", p, [hash |-> Get(base, p).hash])}
    ELSE IF Has(base, p) /\ Has(cur, p) /\ Get(base, p).hash # Get(cur, p).hash
        THEN {Change("modified", p,
                     [before |-> Get(base, p).hash, after |-> Get(cur, p).hash])}
    ELSE {}

\* C1: compare_baseline(B, C) holds exactly one created Change (hash of C[p])
\* per path only in C, one deleted Change (hash of B[p]) per path only in B,
\* one modified Change (before, after) per common path whose hashes differ,
\* and nothing for a common path with equal hashes, whatever its size and
\* mtime; it holds no other Change.
C1_DiffPartition ==
    phase = "compared" =>
        /\ \A p \in DiffPaths :
              /\ Cardinality(Occurrences(changes, p))
                    = Cardinality(ExpectedFor(baseline, current, p))
              /\ \A i \in Occurrences(changes, p) :
                    changes[i] \in ExpectedFor(baseline, current, p)
        /\ \A i \in 1..Len(changes) : changes[i].path \in DiffPaths

\* a diff with a created, a deleted and a modified Change at once
C1_Witness ==
    /\ phase = "compared"
    /\ {changes[i].change_type : i \in 1..Len(changes)}
          = {"created", "deleted", "modified"}

\* a common path with equal hashes whose size differs, left out of a diff
\* that is not empty
C1_WitnessMeta ==
    /\ phase = "compared"
    /\ changes # <<>>
    /\ \E p \in Keys(baseline) \cap Keys(current) :
          /\ Get(baseline, p).hash = Get(current, p).hash
          /\ Get(baseline, p).size # Get(current, p).size
          /\ Occurrences(changes, p) = {}

TypeRank(t) == CASE t = "created" -> 1 [] t = "deleted" -> 2 [] t = "modified" -> 3

Ordered(cs) ==
    \A i, j \in 1..Len(cs) :
        i < j =>
            \/ TypeRank(cs[i].change_type) < TypeRank(cs[j].change_type)
            \/ /\ cs[i].change_type = cs[j].change_type
               /\ LexLess(cs[i].path, cs[j].path)

\* the dicts holding the items of d in any insertion order
Reorderings(d) ==
    {[i \in 1..Len(d) |-> d[f[i]]] :
        f \in {g \in [1..Len(d) -> 1..Len(d)] : IsInjective(g)}}

\* C2: the list of compare_baseline(B, C) is all created Changes in ascending
\* lexicographic path order, then all deleted, then all modified, each group
\* in ascending path order; B and C inserted in any other order give the
\* same list.
C2_DiffOrder ==
    phase = "compared" =>
        /\ Ordered(changes)
        /\ \A b \in Reorderings(baseline) : \A c \in Reorderings(current) :
              compare_baseline(b, c) = changes

\* two created Changes, one path a proper prefix of the other, inserted in
\* descending order
C2_Witness ==
    /\ phase = "compared"
    /\ Len(current) = 3
    /\ LexLess(current[3].k, current[2].k)
    /\ Len(current[3].k) < Len(current[2].k)
    /\ Len(changes) = 3
    /\ changes[3].change_type = "created"
    /\ changes[1].change_type = "created"
    /\ changes[2].change_type = "created"

-----------------------------------------------------------------------------
(* Claims on the classifier and the snapshot builder *)

\* C3: without an I/O failure build_event_change(baseline, path) returns one
\* deleted Change with the baseline hash for a path absent on disk and in
\* the baseline, nothing for a path absent on disk and not in the baseline,
\* one created Change with the recomputed hash for a path on disk and not in
\* the baseline, one modified Change (before = baseline hash, after =
\* recomputed hash) for a path on disk whose hash differs, nothing when the
\* hash is equal.
C3_EventClassification ==
    (phase = "event" /\ ~HashFails(fs, arg)) =>
        LET on_disk == fs[arg].kind # "absent"
            tracked == arg \in Keys(baseline)
        IN  /\ raised = "none"
            /\ (~on_disk /\ tracked) =>
                  changes = <<Change("deleted", arg, [hash |-> Get(baseline, arg).hash])>>
            /\ (~on_disk /\ ~tracked) => changes = <<>>
            /\ (on_disk /\ ~tracked) =>
                  changes = <<Change("created", arg, [hash |-> fs[arg].hash])>>
            /\ (on_disk /\ tracked /\ Get(baseline, arg).hash # fs[arg].hash) =>
                  changes = <<Change("modified", arg,
                                [before |-> Get(baseline, arg).hash,
                                 after |-> fs[arg].hash])>>
            /\ (on_disk /\ tracked /\ Get(baseline, arg).hash = fs[arg].hash) =>
                  changes = <<>>

\* a created Change for an untracked path that is on disk
C3_Witness ==
    /\ phase = "event"
    /\ ~HashFails(fs, arg)
    /\ fs[arg].kind # "absent"
    /\ arg \notin Keys(baseline)
    /\ Len(changes) = 1
    /\ changes[1].change_type = "created"

\* the files the enumerator yields for some configured root and no glob excludes
Candidates(cfg, f) ==
    {p \in FsPaths :
        \E i \in 1..Len(cfg.paths) :
            LET root == cfg.paths[i]
            IN  /\ \/ p = root /\ f[p].kind # "absent"
                   \/ /\ IsPrefix(root, p)
                      /\ f[p].kind = "file" \/ (f[p].kind = "symlink" /\ cfg.follow_symlinks)
                /\ ~should_exclude(p, root, cfg.exclude_globs)}

Readable(f, p) == f[p].io = "ok"

\* data holds one record, read from f, per readable candidate and nothing
\* else; the log holds one warning per candidate that failed
TolerantWalk(data, cfg, f) ==
    /\ raised = "none"
    /\ Keys(data) = {p \in Candidates(cfg, f) : Readable(f, p)}
    /\ IsInjective([i \in 1..Len(data) |-> data[i].k])
    /\ \A p \in Keys(data) :
          Get(data, p) = BaselineRecord(p, f[p].hash, f[p].size, f[p].mtime)
    /\ \A p \in FsPaths :
          LogCount(log, Warning(p))
             = IF p \in Candidates(cfg, f) /\ ~Readable(f, p) THEN 1 ELSE 0
    /\ \A l \in DOMAIN log : l.level = "WARNING"

\* C6: snapshot and build_baseline never abort on a per-file I/O failure:
\* whatever subset of the candidates fails to hash or stat, the call returns
\* a mapping with exactly one record per readable non-excluded candidate, no
\* record for a file that failed, and one warning is logged per failed file.
C6_PartialFailureTolerance ==
    /\ phase = "snapshot" => TolerantWalk(current, config, fs)
    /\ phase = "built" => TolerantWalk(baseline, config, fs)

\* a snapshot over two candidates of which one fails to hash
C6_Witness ==
    /\ phase = "snapshot"
    /\ Cardinality(Candidates(config, fs)) = 2
    /\ Len(current) = 1
    /\ Cardinality(DOMAIN log) = 1
    /\ \E p \in Candidates(config, fs) : fs[p].io = "hash_fail"

\* a baseline build over two candidates of which both fail, one at stat
C6_WitnessBuild ==
    /\ phase = "built"
    /\ Cardinality(Candidates(config, fs)) = 2
    /\ baseline = <<>>
    /\ Cardinality(DOMAIN log) = 2
    /\ \E p \in Candidates(config, fs) : fs[p].io = "stat_fail"

-----------------------------------------------------------------------------
(* run_watch: the main thread, the polling worker, the observer thread that *)
(* dispatches events to Handler one at a time, and the filesystem.         *)
(* A step that reads or writes nothing another thread writes is taken      *)
(* together with the step before it: the only points where a thread can be *)
(* overtaken are between the worker's test of stop_event and the loop body *)
(* it guards, and between the classifier's path.exists() and its re-hash.  *)

DebounceMs == 2
MaxClock == 4
MaxCycles == 2
MaxEvents == 2

WatchConfig ==
    [paths |-> <<RootDir, RootFile>>,
     exclude_globs |-> <<>>,
     follow_symlinks |-> FALSE,
     hash_algorithm |-> "sha256",
     event_debounce_ms |-> DebounceMs]

\* the tree when the baseline was taken: one file under RootDir
BaselineFs ==
    [p \in FsPaths |->
        IF p = <<1, 1>>
        THEN [kind |-> "file", hash |-> 1, size |-> 1, mtime |-> 10, io |-> "ok"]
        ELSE Absent]

\* format_change: the fields the line prints, by change type; a moved Change
\* has no hash in its details and prints the empty text, written 0
format_change(change) ==
    IF change.change_type = "modified"
        THEN [tag |-> "MODIFIED", path |-> change.path,
              before |-> change.details.before, after |-> change.details.after]
    ELSE IF change.change_type = "created"
        THEN [tag |-> "CREATED", path |-> change.path, hash |-> change.details.hash]
    ELSE IF change.change_type = "deleted"
        THEN [tag |-> "DELETED", path |-> change.path, hash |-> change.details.hash]
    ELSE IF change.change_type = "moved"
        THEN [tag |-> "MOVED", from |-> change.details.from, to |-> change.details.to,
              hash |-> 0]
    ELSE [tag |-> "OTHER", path |-> change.path]

\* logger.info(format_change(change))
Info(change) == [level |-> "INFO", msg |-> "change", text |-> format_change(change)]

\* a reporter that logs every Change twice
report_changes_twice(cs) == [i \in 1..2 * Len(cs) |-> Info(cs[(i + 1) \div 2])]

\* report_changes: the lines it logs
report_changes(cs) == [i \in 1..Len(cs) |-> Info(cs[i])]

Running == main_pc \notin {"off", "exited"}

Init ==
    /\ config = WatchConfig
    /\ fs = BaselineFs
    /\ baseline = build_baseline(WatchConfig, BaselineFs).data
    /\ current = <<>>
    /\ changes = <<>>
    /\ log = <<>>
    /\ phase = "watch"
    /\ arg = <<>>
    /\ disk = <<>>
    /\ raised = "none"
    /\ mode \in {"polling", "realtime", "both"}
    /\ watchdog \in BOOLEAN
    /\ mode = "polling" => watchdog
    /\ stop_event = FALSE
    /\ main_pc = "start"
    /\ exit_code = -1
    /\ worker_pc = "none"
    /\ observer = "none"
    /\ queue = <<>>
    /\ h_pc = "idle"
    /\ h_ev = NoEvent
    /\ last_event = <<>>
    /\ clock = 0
    /\ hist = <<>>
    /\ cycles = 0
    /\ budget = MaxEvents
    /\ late = FALSE
    /\ ctx = <<>>

(* ---- main thread ---- *)

\* thread.start() in modes polling and both
StartPolling ==
    /\ main_pc = "start"
    /\ worker_pc' = IF mode \in {"polling", "both"} THEN "check" ELSE worker_pc
    /\ main_pc' = "import"
    /\ UNCHANGED <<pureVars, mode, watchdog, stop_event, exit_code, cycles,
                   handlerVars, budget, late>>
    /\ UNCHANGED ctx

\* the watchdog import succeeds; observer.schedule, observer.start
StartObserver ==
    /\ main_pc = "import"
    /\ mode \in {"realtime", "both"}
    /\ watchdog
    /\ observer' = "running"
    /\ main_pc' = "sleep_realtime"
    /\ UNCHANGED <<pureVars, mode, watchdog, stop_event, exit_code, workerVars,
                   queue, h_pc, h_ev, last_event, clock, hist, budget, late>>
    /\ UNCHANGED ctx

\* ImportError: logger.error, return 1
ImportFails ==
    /\ main_pc = "import"
    /\ mode \in {"realtime", "both"}
    /\ ~watchdog
    /\ log' = LogLine(log, [level |-> "ERROR", msg |-> "watchdog is required"])
    /\ exit_code' = 1
    /\ main_pc' = "returned"
    /\ UNCHANGED <<baseline, current, changes, fs, config, phase, arg, disk, raised>>
    /\ UNCHANGED <<mode, watchdog, stop_event, workerVars, handlerVars, budget, late>>
    /\ UNCHANGED ctx

\* mode polling: "Polling active", then the sleep loop
PollingOnly ==
    /\ main_pc = "import"
    /\ mode = "polling"
    /\ log' = LogLine(log, [level |-> "INFO", msg |-> "Polling active"])
    /\ main_pc' = "sleep_polling"
    /\ UNCHANGED <<baseline, current, changes, fs, config, phase, arg, disk, raised>>
    /\ UNCHANGED <<mode, watchdog, stop_event, exit_code, workerVars, handlerVars,
                   budget, late>>
    /\ UNCHANGED ctx

\* KeyboardInterrupt in the realtime sleep loop: stop_event.set()
InterruptRealtime ==
    /\ main_pc = "sleep_realtime"
    /\ stop_event' = TRUE
    /\ main_pc' = "observer_stop"
    /\ UNCHANGED <<pureVars, mode, watchdog, exit_code, workerVars, handlerVars,
                   budget, late>>
    /\ UNCHANGED ctx

\* observer.stop(): the observer thread takes no further event
ObserverStop ==
    /\ main_pc = "observer_stop"
    /\ observer' = IF observer = "running" THEN "stopping" ELSE observer
    /\ main_pc' = "observer_join"
    /\ UNCHANGED <<pureVars, mode, watchdog, stop_event, exit_code, workerVars,
                   queue, h_pc, h_ev, last_event, clock, hist, budget, late>>
    /\ UNCHANGED ctx

\* observer.join() returns once the callback in progress has ended; return 0
ObserverJoin ==
    /\ main_pc = "observer_join"
    /\ h_pc = "idle"
    /\ observer' = IF observer = "stopping" THEN "joined" ELSE observer
    /\ exit_code' = 0
    /\ main_pc' = "returned"
    /\ UNCHANGED <<pureVars, mode, watchdog, stop_event, workerVars,
                   queue, h_pc, h_ev, last_event, clock, hist, budget, late>>
    /\ UNCHANGED ctx

\* KeyboardInterrupt in the polling sleep loop: stop_event.set(), return 0
InterruptPolling ==
    /\ main_pc = "sleep_polling"
    /\ stop_event' = TRUE
    /\ exit_code' = 0
    /\ main_pc' = "returned"
    /\ UNCHANGED <<pureVars, mode, watchdog, workerVars, handlerVars, budget, late>>
    /\ UNCHANGED ctx

\* sys.exit(run_watch(...)): the process ends and its daemon threads with it
ProcessExit ==
    /\ main_pc = "returned"
    /\ main_pc' = "exited"
    /\ UNCHANGED <<pureVars, mode, watchdog, stop_event, exit_code, workerVars,
                   handlerVars, budget, late>>
    /\ UNCHANGED ctx

(* ---- polling worker ---- *)

\* while not stop_event.is_set(): the event is set, the worker ends
WorkerStops ==
    /\ Running
    /\ worker_pc = "check"
    /\ stop_event
    /\ worker_pc' = "done"
    /\ UNCHANGED <<pureVars, mainVars, handlerVars, cycles, budget, late>>
    /\ UNCHANGED ctx

\* a worker that enters the loop body whether or not the event is set
WorkerContinuesRegardless ==
    /\ Running
    /\ worker_pc = "check"
    /\ cycles < MaxCycles
    /\ worker_pc' = "cycle"
    /\ UNCHANGED <<pureVars, mainVars, handlerVars, cycles, budget, late>>
    /\ UNCHANGED ctx

\* while not stop_event.is_set(): the event is not set, the body is entered
WorkerContinues ==
    /\ Running
    /\ worker_pc = "check"
    /\ ~stop_event
    /\ cycles < MaxCycles
    /\ worker_pc' = "cycle"
    /\ UNCHANGED <<pureVars, mainVars, handlerVars, cycles, budget, late>>
    /\ UNCHANGED ctx

\* a worker that adopts each snapshot as the new baseline
WorkerCycleRebaselining ==
    /\ Running
    /\ worker_pc = "cycle"
    /\ LET r == snapshot(config, fs)
           cs == IF r.raised = "none" THEN compare_baseline(baseline, r.data) ELSE <<>>
       IN  /\ log' = LogAll(LogAll(log, r.warnings), report_changes(cs))
           /\ late' = (late \/ (main_pc = "returned" /\ cs # <<>>))
           /\ worker_pc' = IF r.raised = "none" THEN "check" ELSE "crashed"
           /\ baseline' = r.data
    /\ cycles' = cycles + 1
    /\ UNCHANGED <<current, changes, fs, config, phase, arg, disk, raised>>
    /\ UNCHANGED <<mainVars, handlerVars, budget>>
    /\ UNCHANGED ctx

\* the loop body: current = snapshot(config, logger); changes =
\* compare_baseline(baseline, current); report_changes(changes, logger);
\* stop_event.wait(scan_interval_seconds), which returns on timeout or once
\* the event is set. current and changes are dead when the body ends.
WorkerCycle ==
    /\ Running
    /\ worker_pc = "cycle"
    /\ LET r == snapshot(config, fs)
           cs == IF r.raised = "none" THEN compare_baseline(baseline, r.data) ELSE <<>>
       IN  /\ log' = LogAll(LogAll(log, r.warnings), report_changes(cs))
           /\ late' = (late \/ (main_pc = "returned" /\ cs # <<>>))
           /\ worker_pc' = IF r.raised = "none" THEN "check" ELSE "crashed"
    /\ cycles' = cycles + 1
    /\ UNCHANGED <<baseline, current, changes, fs, config, phase, arg, disk, raised>>
    /\ UNCHANGED <<mainVars, handlerVars, budget>>
    /\ UNCHANGED ctx

(* ---- observer thread: Handler callbacks ---- *)

\* a filter that compares seconds with milliseconds
debounced_in_seconds(now, last, cfg) == (now - last) * 1000 < cfg.event_debounce_ms

\* _debounced: (now - last) * 1000 < event_debounce_ms, times in milliseconds here
debounced(now, last, cfg) == (now - last) < cfg.event_debounce_ms

\* self._last_event.get(str(path), 0)
last_of(table, path) == IF Has(table, path) THEN Get(table, path) ELSE 0

\* the file as compute_file_hash finds it after path.exists() was true: a
\* file gone in between cannot be opened
SeenExisting(f, path) ==
    IF exists(f, path) THEN f
    ELSE [f EXCEPT ![path] =
            [kind |-> "file", hash |-> 0, size |-> 0, mtime |-> 0, io |-> "hash_fail"]]

\* what is recorded of one file-level event: the event, the clock value its
\* callback read, whether it reached build_event_change, how the re-hash
\* went, how many Changes the classifier returned and the Changes reported
HistEntry(ev, t, classified) ==
    [path |-> ev.src_path, event_type |-> ev.event_type, dest |-> ev.dest_path,
     t |-> t, classified |-> classified, failed |-> FALSE,
     vanished |-> FALSE, emitted |-> 0, reported |-> <<>>]

\* on_moved, which dispatch calls once on_any_event has returned: one moved
\* Change for a move of a file, nothing for a directory; the other
\* type-specific callbacks are the base class's and do nothing
on_moved(ev) ==
    IF ev.event_type = "moved" /\ ~ev.is_directory
    THEN <<Change("moved", ev.dest_path, [from |-> ev.src_path, to |-> ev.dest_path])>>
    ELSE <<>>

\* the observer thread takes a directory event: on_any_event returns at once
DispatchDirectory ==
    /\ Running
    /\ observer = "running"
    /\ h_pc = "idle"
    /\ queue # <<>>
    /\ Head(queue).is_directory
    /\ queue' = Tail(queue)
    /\ UNCHANGED <<pureVars, mainVars, workerVars, observer, h_pc, h_ev, last_event,
                   clock, hist, budget, late>>
    /\ UNCHANGED ctx

\* the observer thread takes a file event; _debounced reads the clock, which
\* has advanced by any amount, and returns True: on_any_event returns, and
\* on_moved runs
DispatchDebounced(now) ==
    /\ Running
    /\ observer = "running"
    /\ h_pc = "idle"
    /\ queue # <<>>
    /\ ~Head(queue).is_directory
    /\ now >= clock
    /\ clock' = now
    /\ debounced(now, last_of(last_event, Head(queue).src_path), config)
    /\ hist' = Append(hist,
                [HistEntry(Head(queue), now, FALSE)
                    EXCEPT !.reported = on_moved(Head(queue))])
    /\ log' = LogAll(log, report_changes(on_moved(Head(queue))))
    /\ late' = (late \/ (main_pc = "returned" /\ on_moved(Head(queue)) # <<>>))
    /\ queue' = Tail(queue)
    /\ UNCHANGED <<baseline, current, changes, fs, config, phase, arg, disk, raised>>
    /\ UNCHANGED <<mainVars, workerVars, observer, h_pc, h_ev, last_event, budget>>
    /\ UNCHANGED ctx

\* the observer thread takes a file event; _debounced records now and
\* returns False; build_event_change finds path.exists() false: deleted, or
\* nothing; report_changes; on_moved
DispatchAbsent(now) ==
    /\ Running
    /\ observer = "running"
    /\ h_pc = "idle"
    /\ queue # <<>>
    /\ ~Head(queue).is_directory
    /\ now >= clock
    /\ clock' = now
    /\ ~debounced(now, last_of(last_event, Head(queue).src_path), config)
    /\ ~exists(fs, Head(queue).src_path)
    /\ last_event' = Put(last_event, Head(queue).src_path, now)
    /\ LET r == build_event_change(baseline, Head(queue).src_path, config, fs)
           cs == r.changes \o on_moved(Head(queue))
       IN  /\ log' = LogAll(log, report_changes(cs))
           /\ late' = (late \/ (main_pc = "returned" /\ cs # <<>>))
           /\ hist' = Append(hist,
                        [HistEntry(Head(queue), now, TRUE)
                            EXCEPT !.emitted = Len(r.changes), !.reported = cs])
    /\ queue' = Tail(queue)
    /\ UNCHANGED <<baseline, current, changes, fs, config, phase, arg, disk, raised>>
    /\ UNCHANGED <<mainVars, workerVars, observer, h_pc, h_ev, budget>>
    /\ UNCHANGED ctx

\* the observer thread takes a file event; _debounced records now and
\* returns False; build_event_change finds path.exists() true
DispatchExists(now) ==
    /\ Running
    /\ observer = "running"
    /\ h_pc = "idle"
    /\ queue # <<>>
    /\ ~Head(queue).is_directory
    /\ now >= clock
    /\ clock' = now
    /\ ~debounced(now, last_of(last_event, Head(queue).src_path), config)
    /\ exists(fs, Head(queue).src_path)
    /\ last_event' = Put(last_event, Head(queue).src_path, now)
    /\ hist' = Append(hist, HistEntry(Head(queue), now, TRUE))
    /\ h_ev' = Head(queue)
    /\ queue' = Tail(queue)
    /\ h_pc' = "hash"
    /\ UNCHANGED <<pureVars, mainVars, workerVars, observer, budget, late>>
    /\ UNCHANGED ctx

\* build_event_change, the rest of it: the try block re-hashes and compares;
\* report_changes; on_moved. An exception the classifier lets out ends the
\* observer thread.
ClassifyHash ==
    /\ Running
    /\ h_pc = "hash"
    /\ LET view == SeenExisting(fs, h_ev.src_path)
           r == build_event_change(baseline, h_ev.src_path, config, view)
           cs == IF r.raised = "none" THEN r.changes \o on_moved(h_ev) ELSE <<>>
       IN  /\ log' = LogAll(LogAll(log, r.warnings), report_changes(cs))
           /\ late' = (late \/ (main_pc = "returned" /\ cs # <<>>))
           /\ hist' = [hist EXCEPT
                         ![Len(hist)].failed = HashFails(view, h_ev.src_path),
                         ![Len(hist)].vanished = ~exists(fs, h_ev.src_path),
                         ![Len(hist)].emitted = Len(r.changes),
                         ![Len(hist)].reported = cs]
           /\ observer' = IF r.raised = "none" THEN observer ELSE "crashed"
    /\ h_pc' = "idle"
    /\ h_ev' = NoEvent
    /\ UNCHANGED <<baseline, current, changes, fs, config, phase, arg, disk, raised>>
    /\ UNCHANGED <<mainVars, workerVars, queue, last_event, clock, budget>>
    /\ UNCHANGED ctx

(* ---- the filesystem ---- *)

Event(type, src, dest, dir) ==
    [event_type |-> type, src_path |-> src, dest_path |-> dest, is_directory |-> dir]

\* a running observer queues the event; without one it is lost
Emit(ev) == IF observer = "running" THEN Append(queue, ev) ELSE queue

envFrame == <<baseline, current, changes, config, log, phase, arg, disk, raised,
              mainVars, workerVars, observer, h_pc, h_ev, last_event, clock, hist, late,
              ctx>>

\* a file is written: created, or modified (perhaps with the same content)
EnvWrite(p, h) ==
    /\ Running
    /\ budget > 0
    /\ fs' = [fs EXCEPT ![p] =
                [kind |-> "file", hash |-> h, size |-> 1, mtime |-> 10, io |-> "ok"]]
    /\ queue' = Emit(Event("modified", p, <<>>, FALSE))
    /\ budget' = budget - 1
    /\ UNCHANGED envFrame

EnvDelete(p) ==
    /\ Running
    /\ budget > 0
    /\ exists(fs, p)
    /\ fs' = [fs EXCEPT ![p] = Absent]
    /\ queue' = Emit(Event("deleted", p, <<>>, FALSE))
    /\ budget' = budget - 1
    /\ UNCHANGED envFrame

EnvMove(p, q) ==
    /\ Running
    /\ budget > 0
    /\ p # q
    /\ exists(fs, p)
    /\ fs' = [fs EXCEPT ![q] = fs[p], ![p] = Absent]
    /\ queue' = Emit(Event("moved", p, q, FALSE))
    /\ budget' = budget - 1
    /\ UNCHANGED envFrame

\* the file's permissions change: it can no longer be read
EnvChmod(p) ==
    /\ Running
    /\ budget > 0
    /\ exists(fs, p)
    /\ fs[p].io = "ok"
    /\ fs' = [fs EXCEPT ![p].io = "hash_fail"]
    /\ queue' = Emit(Event("modified", p, <<>>, FALSE))
    /\ budget' = budget - 1
    /\ UNCHANGED envFrame

\* a directory-level event
EnvDirEvent ==
    /\ Running
    /\ budget > 0
    /\ observer = "running"
    /\ queue' = Append(queue, Event("modified", RootDir, <<>>, TRUE))
    /\ budget' = budget - 1
    /\ UNCHANGED <<fs, envFrame>>

Next ==
    \/ StartPolling
    \/ StartObserver
    \/ ImportFails
    \/ PollingOnly
    \/ InterruptRealtime
    \/ ObserverStop
    \/ ObserverJoin
    \/ InterruptPolling
    \/ ProcessExit
    \/ WorkerStops
    \/ WorkerContinues
    \/ WorkerCycle
    \/ DispatchDirectory
    \/ \E now \in 0..MaxClock : DispatchDebounced(now)
    \/ \E now \in 0..MaxClock : DispatchAbsent(now)
    \/ \E now \in 0..MaxClock : DispatchExists(now)
    \/ ClassifyHash
    \/ \E p \in FsPaths : \E h \in Hashes : EnvWrite(p, h)
    \/ \E p \in FsPaths : EnvDelete(p)
    \/ \E p \in FsPaths : \E q \in FsPaths : EnvMove(p, q)
    \/ \E p \in FsPaths : EnvChmod(p)
    \/ EnvDirEvent

Spec == Init /\ [][Next]_vars

\* the real-time loop alone: a session in mode realtime
InitRealtime == Init /\ mode = "realtime"

NextRealtime ==
    \/ StartPolling
    \/ StartObserver
    \/ ImportFails
    \/ InterruptRealtime
    \/ ObserverStop
    \/ ObserverJoin
    \/ ProcessExit
    \/ DispatchDirectory
    \/ \E now \in 0..MaxClock : DispatchDebounced(now)
    \/ \E now \in 0..MaxClock : DispatchAbsent(now)
    \/ \E now \in 0..MaxClock : DispatchExists(now)
    \/ ClassifyHash
    \/ \E p \in FsPaths : \E h \in Hashes : EnvWrite(p, h)
    \/ \E p \in FsPaths : EnvDelete(p)
    \/ \E p \in FsPaths : \E q \in FsPaths : EnvMove(p, q)
    \/ \E p \in FsPaths : EnvChmod(p)
    \/ EnvDirEvent

SpecRealtime == InitRealtime /\ [][NextRealtime]_vars

-----------------------------------------------------------------------------
(* Claims about the watch session *)

\* the file events on path that reached build_event_change
Classified(path) == {i \in 1..Len(hist) : hist[i].classified /\ hist[i].path = path}

\* the file events on path whose re-hash failed
Failed(path) == {i \in 1..Len(hist) : hist[i].failed /\ hist[i].path = path}

\* C4: of any two file events on the same path whose callbacks read clock
\* values less than event_debounce_ms apart, at most one reaches
\* build_event_change.
C4_Debounce ==
    \A i \in 1..Len(hist) : \A j \in 1..Len(hist) :
        (/\ i < j
         /\ hist[i].path = hist[j].path
         /\ hist[j].t - hist[i].t < config.event_debounce_ms)
        => ~(hist[i].classified /\ hist[j].classified)

\* two events on one path inside the window, the first classified and the
\* second suppressed
C4_Witness ==
    \E i \in 1..Len(hist) : \E j \in 1..Len(hist) :
        /\ i < j
        /\ hist[i].path = hist[j].path
        /\ hist[j].t - hist[i].t < config.event_debounce_ms
        /\ hist[i].classified
        /\ ~hist[j].classified

\* the lines of the log that report a Change of a path's content
Reports(lg) ==
    {l \in DOMAIN lg :
        l.msg = "change" /\ l.text.tag \in {"CREATED", "MODIFIED", "DELETED"}}

\* C5 as stated: no Change of a path against the baseline is reported more
\* than once in a session.
C5_ReportedAtMostOnce == \A l \in Reports(log) : log[l] <= 1

\* C5, amended: a Change of a path against the baseline is reported at most
\* once by each polling cycle and at most once by each file event on that
\* path that passed the debounce filter.
C5_ReportedOncePerCycleAndEvent ==
    \A l \in Reports(log) : log[l] <= cycles + Cardinality(Classified(l.text.path))

\* one Change reported by a polling cycle and again by a real-time event
C5_Witness ==
    \E l \in Reports(log) :
        /\ log[l] = 2
        /\ cycles = 1
        /\ Cardinality(Classified(l.text.path)) = 1

\* C7: a re-hash that fails inside build_event_change logs a warning, emits no
\* Change for the event and never ends the observer thread, which stays
\* available for later events.
C7_HashFailureContained ==
    /\ observer # "crashed"
    /\ \A i \in 1..Len(hist) : hist[i].failed => hist[i].emitted = 0
    /\ \A p \in FsPaths : LogCount(log, Warning(p)) = Cardinality(Failed(p))

\* an event whose file vanished between path.exists() and the re-hash,
\* followed by a later event that was classified and emitted a Change
C7_Witness ==
    \E i \in 1..Len(hist) : \E j \in 1..Len(hist) :
        /\ i < j
        /\ hist[i].failed
        /\ hist[i].vanished
        /\ hist[j].classified
        /\ hist[j].emitted = 1

\* an event whose file was there and could not be read, followed by a later
\* event that was classified
C7_WitnessUnreadable ==
    \E i \in 1..Len(hist) : \E j \in 1..Len(hist) :
        /\ i < j
        /\ hist[i].failed
        /\ ~hist[i].vanished
        /\ hist[j].classified

\* C9: no step of a watch session changes the baseline mapping.
C9_BaselineFixed == [][baseline' = baseline]_vars

\* the session has polled, classified one event and suppressed another on a
\* changed tree, and run_watch has returned
C9_Witness ==
    /\ main_pc = "returned"
    /\ stop_event
    /\ cycles >= 1
    /\ \E i \in 1..Len(hist) : hist[i].classified
    /\ \E i \in 1..Len(hist) : ~hist[i].classified
    /\ fs # BaselineFs
    /\ baseline = build_baseline(WatchConfig, BaselineFs).data

\* C10 as stated: when run_watch has returned after the stop signal, the
\* observer is stopped and joined, the polling worker has terminated, and no
\* worker has reported a Change since the return.
C10_WorkersJoinedBeforeReturn ==
    (main_pc = "returned" /\ stop_event)
    => /\ observer \in {"none", "joined"}
       /\ worker_pc \in {"none", "done"}
       /\ ~late

\* no worker reports a Change after run_watch has returned
C10_NoLateReport == ~late

\* the observer's part of C10: it is stopped and joined before the return
C10_ObserverJoined ==
    (main_pc = "returned" /\ stop_event) => observer \in {"none", "joined"}

-----------------------------------------------------------------------------
(* Handler._debounced called from more than one callback context at once:  *)
(* the steps of two calls interleave between the read of the table and     *)
(* the write to it.                                                        *)

Contexts == {"t1", "t2"}

CallbackEvents == {Event("modified", p, <<>>, FALSE) : p \in FsPaths}

InitCallbacks ==
    /\ config = WatchConfig
    /\ fs = BaselineFs
    /\ baseline = build_baseline(WatchConfig, BaselineFs).data
    /\ current = <<>>
    /\ changes = <<>>
    /\ log = <<>>
    /\ phase = "callbacks"
    /\ arg = <<>>
    /\ disk = <<>>
    /\ raised = "none"
    /\ mode = "realtime"
    /\ watchdog = TRUE
    /\ stop_event = FALSE
    /\ main_pc = "sleep_realtime"
    /\ exit_code = -1
    /\ worker_pc = "none"
    /\ observer = "running"
    /\ queue = <<>>
    /\ h_pc = "idle"
    /\ h_ev = NoEvent
    /\ last_event = <<>>
    /\ clock \in 0..MaxClock
    /\ hist = <<>>
    /\ cycles = 0
    /\ budget = 0
    /\ late = FALSE
    /\ ctx \in [Contexts ->
                 {[pc |-> "now", ev |-> e, now |-> 0, last |-> 0] : e \in CallbackEvents}]

callbackFrame == <<pureVars, mainVars, workerVars, observer, queue, h_pc, h_ev,
                   budget, late>>

\* now = time.monotonic()
CallbackReadsClock(c, now) ==
    /\ ctx[c].pc = "now"
    /\ now >= clock
    /\ clock' = now
    /\ ctx' = [ctx EXCEPT ![c].pc = "last", ![c].now = now]
    /\ UNCHANGED <<callbackFrame, last_event, hist>>

\* last = self._last_event.get(str(path), 0); the test is true: return True
CallbackDebounced(c) ==
    /\ ctx[c].pc = "last"
    /\ debounced(ctx[c].now, last_of(last_event, ctx[c].ev.src_path), config)
    /\ ctx' = [ctx EXCEPT ![c].pc = "ignored",
                          ![c].last = last_of(last_event, ctx[c].ev.src_path)]
    /\ hist' = Append(hist, HistEntry(ctx[c].ev, ctx[c].now, FALSE))
    /\ UNCHANGED <<callbackFrame, last_event, clock>>

\* last = self._last_event.get(str(path), 0); the test is false
CallbackPasses(c) ==
    /\ ctx[c].pc = "last"
    /\ ~debounced(ctx[c].now, last_of(last_event, ctx[c].ev.src_path), config)
    /\ ctx' = [ctx EXCEPT ![c].pc = "set",
                          ![c].last = last_of(last_event, ctx[c].ev.src_path)]
    /\ UNCHANGED <<callbackFrame, last_event, clock, hist>>

\* self._last_event[str(path)] = now; return False: the classifier is next
CallbackRecords(c) ==
    /\ ctx[c].pc = "set"
    /\ last_event' = Put(last_event, ctx[c].ev.src_path, ctx[c].now)
    /\ ctx' = [ctx EXCEPT ![c].pc = "classify"]
    /\ hist' = Append(hist, HistEntry(ctx[c].ev, ctx[c].now, TRUE))
    /\ UNCHANGED <<callbackFrame, clock>>

NextCallbacks ==
    \/ \E c \in Contexts : \E now \in 0..MaxClock : CallbackReadsClock(c, now)
    \/ \E c \in Contexts : CallbackDebounced(c)
    \/ \E c \in Contexts : CallbackPasses(c)
    \/ \E c \in Contexts : CallbackRecords(c)

SpecCallbacks == InitCallbacks /\ [][NextCallbacks]_vars

\* C11: of two callbacks for the same path that run side by side and read
\* clock values less than event_debounce_ms apart, at most one passes the
\* debounce filter and goes on to the classifier.
C11_OnePassesAmongConcurrent ==
    \A a \in Contexts : \A b \in Contexts :
        (/\ a # b
         /\ ctx[a].ev.src_path = ctx[b].ev.src_path
         /\ ctx[a].pc \in {"set", "classify"}
         /\ ctx[b].pc \in {"set", "classify"})
        => ~(ctx[a].now - ctx[b].now < config.event_debounce_ms
             /\ ctx[b].now - ctx[a].now < config.event_debounce_ms)

-----------------------------------------------------------------------------
(* Claims about move events and the debounce filter *)

\* the callbacks for the i-th file-level event have returned
Handled(i) == i < Len(hist) \/ h_pc = "idle"

\* the moved Change of a move event
MovedChange(e) == Change("moved", e.dest, [from |-> e.path, to |-> e.dest])

\* C12: a file-level move event is reported as exactly one Change, the moved
\* Change from its source to its destination, and never reaches
\* build_event_change.
C12_MoveReportsOnlyMoved ==
    \A i \in 1..Len(hist) :
        (hist[i].event_type = "moved" /\ Handled(i))
        => /\ ~hist[i].classified
           /\ hist[i].reported = <<MovedChange(hist[i])>>

\* the part of C12 that holds: every move event reports its moved Change once
C12_MovedReportedOnce ==
    \A i \in 1..Len(hist) :
        (hist[i].event_type = "moved" /\ Handled(i))
        => Len(SelectSeq(hist[i].reported, LAMBDA c : c = MovedChange(hist[i]))) = 1

\* the j-th event came less than event_debounce_ms after an earlier event on
\* the same path
InsideWindow(j) ==
    \E i \in 1..Len(hist) :
        /\ i < j
        /\ hist[i].path = hist[j].path
        /\ hist[j].t - hist[i].t < config.event_debounce_ms

\* C13: a file-level event, move events included, that comes less than
\* event_debounce_ms after another event on the same path is ignored: it
\* does not reach build_event_change and no Change is reported for it.
C13_IgnoredInsideWindow ==
    \A j \in 1..Len(hist) :
        (InsideWindow(j) /\ Handled(j))
        => /\ ~hist[j].classified
           /\ hist[j].reported = <<>>

\* the first part of C13 alone: no classifier call inside the window
C13_NotClassifiedInsideWindow ==
    \A j \in 1..Len(hist) : InsideWindow(j) => ~hist[j].classified

\* the second part of C13 alone: an event the filter rejects reports nothing
C13_NothingReportedWhenDebounced ==
    \A j \in 1..Len(hist) : ~hist[j].classified => hist[j].reported = <<>>

\* what holds of C13: an event the filter rejects reports no Change of content
C13_NoClassifierChangeWhenDebounced ==
    \A j \in 1..Len(hist) : ~hist[j].classified => hist[j].emitted = 0

-----------------------------------------------------------------------------
(* The commands from config.json on: load_config, then the walks and the   *)
(* classifier with the Config it returned.                                 *)

\* data.get(key, default): a key the file does not hold is written "absent"
get_default(value, default) == IF value = "absent" THEN default ELSE value

\* load_config: the Config, or the exception raised
load_config(data) ==
    IF data.paths = <<>>
    THEN [raised |-> "ValueError", config |-> <<>>]
    ELSE [raised |-> "none",
          config |-> [paths |-> data.paths,
                      exclude_globs |-> data.exclude_globs,
                      follow_symlinks |-> data.follow_symlinks,
                      hash_algorithm |-> get_default(data.hash_algorithm, "sha256")]]

\* the contents of config.json: "sha-256" is not a name hashlib.new knows
ConfigData ==
    [paths : {<<>>, <<RootDir>>, <<RootDir, RootFile>>},
     exclude_globs : {<<>>, <<1>>},
     follow_symlinks : BOOLEAN,
     hash_algorithm : {"absent", "sha256", "sha-256"}]

InitConfig ==
    /\ baseline \in FsBaselines
    /\ current = <<>>
    /\ changes = <<>>
    /\ fs \in [FsPaths -> FsEntries({1}, {10})]
    /\ config = <<>>
    /\ log = <<>>
    /\ phase = "config_file"
    /\ arg \in ConfigData
    /\ disk = <<>>
    /\ raised = "none"
    /\ WatchOff

\* config = load_config(config_path), the first statement of every command
LoadConfig ==
    /\ phase = "config_file"
    /\ config' = load_config(arg).config
    /\ raised' = load_config(arg).raised
    /\ phase' = IF load_config(arg).raised = "none" THEN "input" ELSE "failed"
    /\ UNCHANGED <<baseline, current, changes, fs, log, arg, disk>>
    /\ UNCHANGED watchVars

NextConfig ==
    \/ LoadConfig
    \/ CallSnapshot
    \/ CallBuildBaseline
    \/ \E path \in FsPaths : CallBuildEventChange(path)

SpecConfig == InitConfig /\ [][NextConfig]_vars

\* the hash algorithm of the loaded Config is one compute_file_hash cannot use
Unsupported(cfg) == compute_file_hash(fs, RootFile, cfg.hash_algorithm).raised = "ValueError"

\* C14: a Config with an unsupported hash algorithm never comes out of
\* load_config, and no call of snapshot, build_baseline or
\* build_event_change ends with the unsupported-algorithm error.
C14_RejectedAtLoad ==
    /\ phase = "input" => ~Unsupported(config)
    /\ phase \in {"snapshot", "built", "event"} => raised # "ValueError"

\* the second part of C14 alone
C14_NeverSurfacesLater ==
    phase \in {"snapshot", "built", "event"} => raised # "ValueError"

\* with an unsupported algorithm and nothing to hash, no call fails at all
C14_NeverRejected ==
    ~(/\ phase \in {"snapshot", "built"}
      /\ Unsupported(config)
      /\ raised = "none")

-----------------------------------------------------------------------------
(* More claims about the diff and the classifier *)

\* C15: no path appears in two Changes of compare_baseline(B, C), of the same
\* type or of different types.
C15_OneChangePerPath ==
    phase = "compared" =>
        \A i \in 1..Len(changes) : \A j \in 1..Len(changes) :
            changes[i].path = changes[j].path => i = j

\* a diff of three Changes whose inputs share a path
C15_Witness ==
    /\ phase = "compared"
    /\ Len(changes) = 3
    /\ Keys(baseline) \cap Keys(current) # {}
    /\ \E i \in 1..Len(changes) : changes[i].change_type = "modified"

-----------------------------------------------------------------------------
(* The polling loop alone: a session in mode polling.  A thread that can   *)
(* take a step is eventually scheduled.                                    *)

InitPolling == Init /\ mode = "polling"

NextPolling ==
    \/ StartPolling
    \/ PollingOnly
    \/ InterruptPolling
    \/ ProcessExit
    \/ WorkerStops
    \/ WorkerContinues
    \/ WorkerCycle
    \/ \E p \in FsPaths : \E h \in Hashes : EnvWrite(p, h)
    \/ \E p \in FsPaths : EnvDelete(p)
    \/ \E p \in FsPaths : \E q \in FsPaths : EnvMove(p, q)
    \/ \E p \in FsPaths : EnvChmod(p)

\* the guard of WorkerCycle, a step that always changes cycles
CycleEnabled == Running /\ worker_pc = "cycle"

\* weak fairness of WorkerCycle, written out with its guard for ENABLED
FairWorkerCycle == []<>(~CycleEnabled) \/ []<><<WorkerCycle>>_vars

SpecPolling ==
    /\ InitPolling
    /\ [][NextPolling]_vars
    /\ WF_vars(WorkerStops)
    /\ FairWorkerCycle

\* the worker thread has ended, by leaving its loop or with the process
WorkerTerminated == worker_pc \in {"done", "crashed"} \/ main_pc = "exited"

\* C16: once stop_event is set the polling worker enters no new cycle, and it
\* eventually terminates, wherever the signal found it: in a cycle, or
\* between cycles waiting on its timer.
C16_WorkerStopsOnSignal ==
    /\ [][(stop_event /\ worker_pc = "check") => worker_pc' # "cycle"]_vars
    /\ (stop_event ~> WorkerTerminated)

\* the worker has run a cycle, reported a Change and left its loop on the
\* signal
C16_Witness ==
    /\ stop_event
    /\ worker_pc = "done"
    /\ cycles >= 1
    /\ Reports(log) # {}

-----------------------------------------------------------------------------
(* Claims on the outcome of the real-time loop once events have stopped *)

\* every change of the tree has been delivered and handled
AllObserved ==
    /\ observer = "running"
    /\ queue = <<>>
    /\ h_pc = "idle"
    /\ Len(hist) = MaxEvents - budget

\* no read has failed and no file is unreadable
NoIoFailure ==
    /\ \A i \in 1..Len(hist) : ~hist[i].failed /\ ~hist[i].vanished
    /\ \A p \in FsPaths : fs[p].io = "ok"

\* how a baseline file differs from the baseline now: 0 or 1 Change
FinalDeviation(p) ==
    IF ~exists(fs, p)
        THEN <<Change("deleted", p, [hash |-> Get(baseline, p).hash])>>
    ELSE IF fs[p].hash # Get(baseline, p).hash
        THEN <<Change("modified", p,
                      [before |-> Get(baseline, p).hash, after |-> fs[p].hash])>>
    ELSE <<>>

EventsFor(p) == {i \in 1..Len(hist) : hist[i].path = p}

\* the Changes of the last event on p that reached the classifier
LastOutcome(p) ==
    IF Classified(p) = {} THEN <<>>
    ELSE hist[CHOOSE i \in Classified(p) : \A j \in Classified(p) : j <= i].reported

\* C17: in realtime mode without I/O failures, once the events for a
\* baseline path have all been handled, a path that is now deleted or has a
\* different hash has its deleted or modified Change in the last outcome of
\* the loop for that path, also when the last event came inside the debounce
\* window of an earlier one.
C17_FinalStateReported ==
    (mode = "realtime" /\ AllObserved /\ NoIoFailure) =>
        \A p \in Keys(baseline) :
            (EventsFor(p) # {} /\ FinalDeviation(p) # <<>>)
            => \E k \in 1..Len(LastOutcome(p)) :
                   LastOutcome(p)[k] = FinalDeviation(p)[1]

\* C17 for the sessions where every event the filter rejected came inside
\* the window of an earlier event on its path
C17_FinalStateReportedAfterFirst ==
    (\A i \in 1..Len(hist) : hist[i].classified \/ InsideWindow(i))
    => C17_FinalStateReported

\* C17 for the sessions where the filter rejected no event
C17_FinalStateReportedUndebounced ==
    (\A i \in 1..Len(hist) : hist[i].classified) => C17_FinalStateReported

-----------------------------------------------------------------------------
(* Claims on the classifier against the full diff *)

\* the Changes for path p in the diff of the baseline and a fresh snapshot
DiffFor(p) ==
    SelectSeq(compare_baseline(baseline, snapshot(config, fs).data),
              LAMBDA c : c.path = p)

\* C18: without I/O failures, build_event_change(baseline, p) returns the
\* Changes for p in compare_baseline(baseline, snapshot(config)), whatever
\* the baseline, the configuration and the tree, also for a path an
\* exclusion glob matches or the symlink policy skips.
C18_ClassifierAgreesWithDiff ==
    (phase = "event" /\ \A p \in FsPaths : fs[p].io = "ok")
    => changes = DiffFor(arg)

\* C18 for the paths the enumerator yields: under a configured root, not
\* excluded, not skipped as a symbolic link
C18_AgreesOnEnumeratedPaths ==
    (/\ phase = "event"
     /\ \A p \in FsPaths : fs[p].io = "ok"
     /\ exists(fs, arg) => Has(snapshot(config, fs).data, arg))
    => changes = DiffFor(arg)

\* a file an exclusion glob matches, new since the baseline: the classifier
\* reports it created, the full diff holds nothing for it
C18_ExcludedPathReported ==
    /\ phase = "event"
    /\ \A p \in FsPaths : fs[p].io = "ok"
    /\ config.paths = <<RootDir>>
    /\ should_exclude(arg, RootDir, config.exclude_globs)
    /\ changes = <<Change("created", arg, [hash |-> fs[arg].hash])>>
    /\ DiffFor(arg) = <<>>

-----------------------------------------------------------------------------
(* Claims on the first event of a path *)

\* the debounce table held no entry for the path of the j-th event when it
\* came: no earlier event on the path had passed the filter
NoTableEntry(j) ==
    \A i \in 1..Len(hist) :
        (i < j /\ hist[i].path = hist[j].path) => ~hist[i].classified

\* C19: a file-level event on a path with no entry in the debounce table is
\* never debounced: it reaches the classifier, whatever the monotonic clock
\* reads.
C19_FirstEventClassified ==
    \A j \in 1..Len(hist) : NoTableEntry(j) => hist[j].classified

\* C19 once the clock reads event_debounce_ms or more
C19_FirstEventClassifiedLateClock ==
    \A j \in 1..Len(hist) :
        (NoTableEntry(j) /\ hist[j].t >= config.event_debounce_ms)
        => hist[j].classified

-----------------------------------------------------------------------------
(* Claims on the stop signal at the return of run_watch *)

\* C20: on every return path of run_watch, the return with status 1 in mode
\* both without the notification dependency included, stop_event is set
\* when a polling worker was started, so that no worker is left running
\* scan cycles after the return.
C20_StopSetOnEveryReturn ==
    (main_pc = "returned" /\ worker_pc # "none") => stop_event

\* the consequence C20 draws: after the return the worker starts no cycle
C20_NoCycleStartedAfterReturn ==
    [][main_pc = "returned" => ~(worker_pc = "check" /\ worker_pc' = "cycle")]_vars

\* C20 on the returns with status 0
C20_StopSetOnNormalReturn ==
    (main_pc = "returned" /\ worker_pc # "none" /\ exit_code = 0) => stop_event

====
